---- MODULE Spec2Model ----
(***************************************************************************)
(* The real-time messaging hub of internal/usecase/websocket_service.go:   *)
(* the hub goroutine (runHub), the per-connection pumps, the Messaging     *)
(* Service send operations and the ChatRepository they persist through.    *)
(*                                                                         *)
(* Go channels of the hub are unbuffered, so a sender stays blocked until  *)
(* the hub goroutine receives: the senders blocked on a channel are kept   *)
(* as the set of messages they are trying to send.  Connection.Send is     *)
(* unbuffered as well: the hub's send completes only when the connection's *)
(* writePump receives.                                                     *)
(***************************************************************************)
EXTENDS Integers, Sequences, FiniteSets, TLC

\* ---------------------------------------------------------------- bounds
NumUsers == 2
MaxConns == 2
MaxRooms == 1
MaxTime == 2
MaxFrames == 1
MaxMembers == 2
MaxTasks == 1
MaxCallers == 2
MaxTyping == 2
MaxMalformed == 1

Users == 1..NumUsers
ConnIds == 1..MaxConns
NoUser == 0
NoConn == 0
Contents == {"hi", "yo"}

\* ------------------------------------------------------- domain constants
MessageTypeText == "text"
MessageTypeFile == "file"
MessageTypeImage == "image"
MessageTypeVideo == "video"
MessageTypeAudio == "audio"
MessageTypeTyping == "typing"
MessageTypeRead == "read"
MessageTypeTaskUpdate == "task_update"
MessageTypeMention == "mention"
MessageTypeSystem == "system"
RoomTypeDirect == "direct"
RoomTypeGroup == "group"

\* errors returned by the service
OK == "nil"
ErrDB == "db error"
ErrDuplicate == "duplicate key"
ErrRecordNotFound == "record not found"
ErrUserNotInRoom == "user not in room"
ErrLeaveRoomNotFound == "room not found (LeaveRoom)"
ErrRoomNotFound == "room not found"

\* ------------------------------------------------------------ identifiers
\* Room identifiers are strings; they are modelled as triples so that the two
\* generators keep their shapes: a timestamp or a sorted pair of users.
NoRoom == <<"", 0, 0>>
GhostRoom == <<"ghost", 0, 0>>

\* time.Now().Format("20060102150405") + "_" + time.Now().Format("000000000"):
\* the second layout holds no reference-time field, so the identifier has the
\* resolution of one second.
generateRoomID(t) == <<"ts", t, 0>>
generateMessageID(t) == t
generateNotificationID(t) == t

\* An identifier that keeps the order of its arguments.
generateDirectRoomID_Ordered(userID1, userID2) == <<"pair", userID1, userID2>>

\* if userID1 < userID2 { return userID1 + "_" + userID2 }
\* return userID2 + "_" + userID1
generateDirectRoomID(userID1, userID2) ==
    IF userID1 < userID2 THEN <<"pair", userID1, userID2>>
                         ELSE <<"pair", userID2, userID1>>

VARIABLES
    repoImpl,       \* the ChatRepository implementation injected into the service
    now,            \* wall clock in seconds
    frames,         \* number of inbound frames read
    dbRooms,        \* rooms table: id -> persisted columns
    dbMessages,     \* messages table: id -> row
    dbNotifs,       \* notifications table: id -> row
    Rooms,          \* hub.Rooms, the in-memory cache
    Connections,    \* hub.Connections: user -> connection
    nconn,          \* number of Connection objects created
    connUser,       \* Connection.UserID
    writer,         \* position of writePump
    reader,         \* position of readPump / HandleConnection
    received,       \* per connection: what its writePump took from Send, in order
    Broadcast,      \* messages of the senders blocked on hub.Broadcast
    DirectMessage,  \* messages of the senders blocked on hub.DirectMessage
    lockWait,       \* rooms whose creator waits for s.mu.Lock() to cache them
    hubpc,          \* "idle" (in select), "sendB" / "sendD" (inside a case, RLock held)
    hubMsg,         \* the message the hub is routing
    hubTargets,     \* connections the hub still has to send hubMsg to
    hubLog,         \* history: one entry per message the hub took from a channel
    trace,          \* how much of the outcome of the calls is observed
    ret,            \* the outcome of the last Messaging Service call, when observed
    createdDirect,  \* history: rooms returned by CreateDirectRoom
    regOrder,       \* history: the connections in the order the hub registered them
    joinWait,       \* JoinRoom calls waiting for the lock: the rooms they hold
    readWait,       \* MarkMessageAsRead calls that hold a loaded room
    taskStore,      \* tasks table: id -> status
    taskCalls,      \* UpdateTaskStatus calls that hold a loaded task
    malformed       \* history: per connection, the malformed frames dropped

vars == <<repoImpl, now, frames, dbRooms, dbMessages, dbNotifs,
          Rooms, Connections, nconn, connUser, writer, reader, received,
          Broadcast, DirectMessage, lockWait, hubpc, hubMsg, hubTargets,
          hubLog, trace, ret, createdDirect, regOrder, joinWait, readWait,
          taskStore, taskCalls, malformed>>

dbVars == <<dbRooms, dbMessages, dbNotifs>>
connVars == <<nconn, connUser, writer, reader, received>>
hubVars == <<hubpc, hubMsg, hubTargets, hubLog>>
svcVars == <<joinWait, readWait>>
taskVars == <<taskStore, taskCalls>>

NoMsg == [type |-> "", id |-> 0, room |-> NoRoom, user |-> NoUser,
          target |-> NoUser, content |-> "", src |-> NoConn, op |-> "",
          after |-> 0]
NoLast == [id |-> 0, room |-> NoRoom, user |-> NoUser, content |-> "", type |-> ""]
NoRet == [op |-> "", err |-> OK, missing |-> FALSE, created |-> NoRoom,
          room |-> NoRoom, msg |-> 0]

Init ==
    /\ repoImpl \in {"postgres", "repositories"}
    /\ trace \in {"off", "calls", "ops"}
    /\ now = 1
    /\ frames = 0
    /\ dbRooms = << >>
    /\ dbMessages = << >>
    /\ dbNotifs = << >>
    /\ Rooms = << >>
    /\ Connections = [u \in Users |-> NoConn]
    /\ nconn = 0
    /\ connUser = [c \in ConnIds |-> NoUser]
    /\ writer = [c \in ConnIds |-> "none"]
    /\ reader = [c \in ConnIds |-> "none"]
    /\ received = [c \in ConnIds |-> << >>]
    /\ Broadcast = {}
    /\ DirectMessage = {}
    /\ lockWait = {}
    /\ hubpc = "idle"
    /\ hubMsg = NoMsg
    /\ hubTargets = << >>
    /\ hubLog = << >>
    /\ ret = NoRet
    /\ createdDirect = {}
    /\ regOrder = << >>
    /\ joinWait = {}
    /\ readWait = {}
    /\ taskStore = << >>
    /\ taskCalls = {}
    /\ malformed = [c \in ConnIds |-> 0]

\* time.Now(): the clock is only observed where it is read, so time passes in
\* the step that reads it: the reading is the last one or a later second.
ClockReadings == {t \in {now, now + 1} : t <= MaxTime}

\* ------------------------------------------------------------ connections
\* Connection.RoomID is never assigned anywhere in the repository.
ConnRoomID(c) == NoRoom

\* hub.Connections[k], exists
Lookup(table, k) == IF k \in Users THEN table[k] ELSE NoConn

\* A Register case that keeps the entry a user already has.
RegisterConn_KeepFirst(table, c) ==
    IF table[connUser[c]] # NoConn THEN table
    ELSE [table EXCEPT ![connUser[c]] = c]

\* runHub, case Register: s.hub.Connections[conn.UserID] = conn
RegisterConn(table, c) == [table EXCEPT ![connUser[c]] = c]

\* runHub, case Unregister: delete(s.hub.Connections, conn.UserID)
UnregisterConn(table, c) == [table EXCEPT ![connUser[c]] = NoConn]

\* room.Users = append(room.Users[:i], room.Users[i+1:]...) for the first i
\* with room.Users[i] = u
RECURSIVE RemoveFirst(_, _)
RemoveFirst(us, u) ==
    IF us = << >> THEN << >>
    ELSE IF Head(us) = u THEN Tail(us)
    ELSE <<Head(us)>> \o RemoveFirst(Tail(us), u)

\* HandleConnection up to its send on hub.Register, where it blocks.
HandleConnection(userID) ==
    /\ nconn < MaxConns
    /\ nconn' = nconn + 1
    /\ connUser' = [connUser EXCEPT ![nconn + 1] = userID]
    /\ reader' = [reader EXCEPT ![nconn + 1] = "register"]
    /\ UNCHANGED <<repoImpl, trace, now, frames, dbVars, Rooms,
                   Connections, writer, received, Broadcast, DirectMessage,
                   lockWait, hubVars, ret, createdDirect, regOrder, malformed,
                   svcVars, taskVars>>

\* A HandleConnection that starts the pumps without the hub having entered
\* the connection into the table.
HubRegister_PumpsFirst(c) ==
    /\ reader[c] = "register"
    /\ writer' = [writer EXCEPT ![c] = "recv"]
    /\ reader' = [reader EXCEPT ![c] = "read"]
    /\ regOrder' = Append(regOrder, c)
    /\ UNCHANGED <<repoImpl, trace, now, frames, dbVars, Rooms, nconn,
                   connUser, received, Broadcast, DirectMessage, lockWait,
                   hubVars, ret, createdDirect, Connections, malformed,
                   svcVars, taskVars>>

\* runHub takes a connection from Register; HandleConnection then starts the pumps.
HubRegister(c) ==
    /\ hubpc = "idle"
    /\ reader[c] = "register"
    /\ Connections' = RegisterConn(Connections, c)
    /\ writer' = [writer EXCEPT ![c] = "recv"]
    /\ reader' = [reader EXCEPT ![c] = "read"]
    /\ regOrder' = Append(regOrder, c)
    /\ UNCHANGED <<repoImpl, trace, now, frames, dbVars, Rooms, nconn,
                   connUser, received, Broadcast, DirectMessage, lockWait,
                   hubVars, ret, createdDirect, malformed,
                   svcVars, taskVars>>

\* readPump: conn.ReadMessage() fails (the peer went away, or the connection was
\* closed by writePump's deferred conn.Close()); the deferred function blocks on
\* hub.Unregister.
ReaderFail(c) ==
    /\ reader[c] = "read"
    /\ reader' = [reader EXCEPT ![c] = "unreg"]
    /\ UNCHANGED <<repoImpl, trace, now, frames, dbVars, Rooms,
                   Connections, nconn, connUser, writer, received, Broadcast,
                   DirectMessage, lockWait, hubVars, ret, createdDirect, regOrder, malformed,
                   svcVars, taskVars>>

\* runHub takes a connection from Unregister.
HubUnregister(c) ==
    /\ hubpc = "idle"
    /\ reader[c] = "unreg"
    /\ Connections' = UnregisterConn(Connections, c)
    /\ Rooms' = IF ConnRoomID(c) # NoRoom /\ ConnRoomID(c) \in DOMAIN Rooms
                THEN [Rooms EXCEPT ![ConnRoomID(c)].users =
                                       RemoveFirst(@, connUser[c])]
                ELSE Rooms
    /\ reader' = [reader EXCEPT ![c] = "done"]
    /\ UNCHANGED <<repoImpl, trace, now, frames, dbVars, nconn,
                   connUser, writer, received, Broadcast, DirectMessage,
                   lockWait, hubVars, ret, createdDirect, regOrder, malformed,
                   svcVars, taskVars>>

\* A readPump that leaves its loop on a frame it cannot decode.
ReaderMalformed_Break(c) ==
    /\ reader[c] = "read"
    /\ malformed[c] < MaxMalformed
    /\ malformed' = [malformed EXCEPT ![c] = @ + 1]
    /\ reader' = [reader EXCEPT ![c] = "unreg"]
    /\ UNCHANGED <<repoImpl, trace, now, frames, dbVars, Rooms,
                   Connections, nconn, connUser, writer, received, Broadcast,
                   DirectMessage, lockWait, hubVars, ret, createdDirect,
                   regOrder, svcVars, taskVars>>

\* readPump reads a frame json.Unmarshal rejects: it logs and continues with
\* the next ReadMessage.
ReaderMalformed(c) ==
    /\ reader[c] = "read"
    /\ malformed[c] < MaxMalformed
    /\ malformed' = [malformed EXCEPT ![c] = @ + 1]
    /\ UNCHANGED <<repoImpl, trace, now, frames, dbVars, Rooms,
                   Connections, connVars, Broadcast, DirectMessage, lockWait,
                   hubVars, ret, createdDirect, regOrder, svcVars, taskVars>>

\* The inbound frames a client may send: any envelope; the fields that decide
\* the routing are enumerated.
FrameTypes == {RoomTypeDirect, MessageTypeText, MessageTypeTaskUpdate}

Frame(c, type, room, user, target) ==
    [type |-> type, id |-> 0, room |-> room,
     user |-> user, target |-> target, content |-> "hi", src |-> c,
     op |-> "frame", after |-> malformed[c]]

\* readPump: switch wsMessage.Type; "direct" goes to DirectMessage, "group" and
\* every other type to Broadcast.
FrameChannel(type) == IF type = RoomTypeDirect THEN "DirectMessage" ELSE "Broadcast"

\* readPump reads a well-formed frame and blocks sending it to the hub.  The
\* frame is the client's JSON as json.Unmarshal decodes it: user_id is what
\* the client wrote, readPump does not set it from the connection.
ReaderFrame(c) ==
    /\ reader[c] = "read"
    /\ frames < MaxFrames
    /\ \E type \in FrameTypes, room \in DOMAIN Rooms \cup {NoRoom},
          user \in Users, target \in Users \cup {NoUser} :
         LET m == Frame(c, type, room, user, target) IN
         /\ Broadcast' = IF FrameChannel(type) = "Broadcast"
                         THEN Broadcast \cup {m} ELSE Broadcast
         /\ DirectMessage' = IF FrameChannel(type) = "DirectMessage"
                             THEN DirectMessage \cup {m} ELSE DirectMessage
    /\ frames' = frames + 1
    /\ reader' = [reader EXCEPT ![c] = "send"]
    /\ UNCHANGED <<repoImpl, trace, now, dbVars, Rooms, Connections, nconn,
                   connUser, writer, received, lockWait, hubVars, ret,
                   createdDirect, regOrder, malformed,
                   svcVars, taskVars>>

\* -------------------------------------------------------------------- hub
\* for _, userID := range room.Users { if conn, exists := Connections[userID] ... }
RECURSIVE RoomTargets(_, _)
RoomTargets(table, us) ==
    IF us = << >> THEN << >>
    ELSE (IF Lookup(table, Head(us)) # NoConn
          THEN <<Lookup(table, Head(us))>> ELSE << >>)
         \o RoomTargets(table, Tail(us))

\* A DirectMessage case that looks the connection up under the sender.
DirectTargets_ToSender(table, m) ==
    IF Lookup(table, m.user) # NoConn THEN <<Lookup(table, m.user)>> ELSE << >>

\* if targetConn, exists := s.hub.Connections[message.TargetID]; exists
DirectTargets(table, m) ==
    IF Lookup(table, m.target) # NoConn THEN <<Lookup(table, m.target)>> ELSE << >>

\* A fan-out that reaches nobody.
GlobalTargets_Nobody(table) == {<< >>}

\* for _, conn := range s.hub.Connections: Go iterates a map in any order.
GlobalTargets(table) ==
    LET live == {table[u] : u \in Users} \ {NoConn} IN
    {s \in [1..Cardinality(live) -> live] :
        \A i, j \in 1..Cardinality(live) : i # j => s[i] # s[j]}

\* room.LastMessage = &domain.Message{ID: message.ID, RoomID: ..., ...}
LastMessageOf(m) ==
    [id |-> m.id, room |-> m.room, user |-> m.user, content |-> m.content,
     type |-> m.type]

\* A Broadcast case that leaves the cached room as it found it.
AfterBroadcast_NoSummary(cache, m) == cache

\* The cache after the hub finished the Broadcast case for m.
AfterBroadcast(cache, m) ==
    IF m.room # NoRoom /\ m.room \in DOMAIN cache
    THEN [cache EXCEPT ![m.room].last = LastMessageOf(m)]
    ELSE cache

\* A sender blocked in readPump goes back to reading once the hub has its frame.
ReleaseSender(m) ==
    IF m.src # NoConn THEN [reader EXCEPT ![m.src] = "read"] ELSE reader

\* History kept of one message taken by the hub: the channel it came from,
\* the connection table and the cached member list at that moment, and the
\* connections the hub then sends it to.
LogEntry(m, chan, targets) ==
    [msg |-> m, chan |-> chan, table |-> Connections,
     cached |-> m.room \in DOMAIN Rooms,
     users |-> IF m.room \in DOMAIN Rooms THEN Rooms[m.room].users ELSE << >>,
     targets |-> targets]

\* runHub, case message := <-s.hub.DirectMessage
HubRecvDirect(m) ==
    /\ hubpc = "idle"
    /\ m \in DirectMessage
    /\ DirectMessage' = DirectMessage \ {m}
    /\ reader' = ReleaseSender(m)
    /\ LET targets == DirectTargets(Connections, m) IN
       /\ hubLog' = Append(hubLog, LogEntry(m, "DirectMessage", targets))
       /\ hubTargets' = targets
       /\ hubMsg' = IF targets = << >> THEN NoMsg ELSE m
       /\ hubpc' = IF targets = << >> THEN "idle" ELSE "sendD"
    /\ UNCHANGED <<repoImpl, trace, now, frames, dbVars, Rooms,
                   Connections, nconn, connUser, writer, received, Broadcast,
                   lockWait, ret, createdDirect, regOrder, malformed,
                   svcVars, taskVars>>

\* runHub, case message := <-s.hub.Broadcast
HubRecvBroadcast(m) ==
    /\ hubpc = "idle"
    /\ m \in Broadcast
    /\ Broadcast' = Broadcast \ {m}
    /\ reader' = ReleaseSender(m)
    /\ \E targets \in
            IF m.room # NoRoom
            THEN (IF m.room \in DOMAIN Rooms
                  THEN {RoomTargets(Connections, Rooms[m.room].users)}
                  ELSE {<< >>})
            ELSE IF m.type = MessageTypeTaskUpdate
                 THEN GlobalTargets(Connections)
                 ELSE {<< >>} :
         /\ hubLog' = Append(hubLog, LogEntry(m, "Broadcast", targets))
         /\ hubTargets' = targets
         /\ hubMsg' = IF targets = << >> THEN NoMsg ELSE m
         /\ hubpc' = IF targets = << >> THEN "idle" ELSE "sendB"
         /\ Rooms' = IF targets = << >> THEN AfterBroadcast(Rooms, m) ELSE Rooms
    /\ UNCHANGED <<repoImpl, trace, now, frames, dbVars, Connections,
                   nconn, connUser, writer, received, DirectMessage, lockWait,
                   ret, createdDirect, regOrder, malformed,
                   svcVars, taskVars>>

\* conn.Send <- message: the hub's send meets the receive of the target's
\* writePump, which then runs its loop body: conn.NextWriter succeeds and the
\* message is encoded, or it fails and writePump returns (closing the
\* connection).  After the last target the case ends and the hub is back in
\* select.
HubSend ==
    /\ hubpc \in {"sendB", "sendD"}
    /\ LET c == Head(hubTargets) IN
       /\ writer[c] = "recv"
       /\ \E outcome \in {"recv", "done"} :
            writer' = [writer EXCEPT ![c] = outcome]
       /\ received' = [received EXCEPT ![c] =
                        Append(@, [ord |-> Len(hubLog), msg |-> hubMsg])]
    /\ hubTargets' = Tail(hubTargets)
    /\ IF Tail(hubTargets) = << >>
       THEN /\ hubpc' = "idle"
            /\ hubMsg' = NoMsg
            /\ Rooms' = IF hubpc = "sendB" THEN AfterBroadcast(Rooms, hubMsg)
                        ELSE Rooms
       ELSE UNCHANGED <<hubpc, hubMsg, Rooms>>
    /\ UNCHANGED <<repoImpl, trace, now, frames, dbVars, Connections,
                   nconn, connUser, reader, Broadcast, DirectMessage, lockWait,
                   hubLog, ret, createdDirect, regOrder, malformed,
                   svcVars, taskVars>>

\* ------------------------------------------------------------- repository
\* A repository call fails with a database error when the step injects one
\* (fail names the call that suffers it).
FailPoints == {"none", "GetRoom", "CreateRoom", "CreateMessage", "UpdateRoom",
               "CreateNotification", "RemoveUserFromRoom",
               "UpdateMessageStatus", "GetRoomMessages"}

\* GetRoom: db.First(&room, "id = ?", roomID).  The postgres implementation
\* returns gorm's error when no row matches; the implementation of package
\* repositories turns gorm.ErrRecordNotFound into (nil, nil).
GetRoomErr(rooms, id, fail) ==
    IF fail = "GetRoom" THEN ErrDB
    ELSE IF id \in DOMAIN rooms THEN OK
    ELSE IF repoImpl = "postgres" THEN ErrRecordNotFound
    ELSE OK

\* CreateRoom: db.Create(room); the identifier is the primary key.
CreateRoomErr(rooms, id, fail) ==
    IF fail = "CreateRoom" THEN ErrDB
    ELSE IF id \in DOMAIN rooms THEN ErrDuplicate
    ELSE OK

\* Room.Name: the name CreateGroupRoom is called with (one name is enough
\* here); CreateDirectRoom sets none.
NameOf(type) == IF type = RoomTypeGroup THEN "team" ELSE ""

\* Room.UnreadCount == nil: no user has a counter.
NoCounters == [u \in {} |-> 0]

\* The persisted columns of a room as CreateRoom stores them.  Users and
\* LastMessage carry the tag gorm:"-" and are not stored.
RoomRow(type) ==
    [type |-> type, name |-> NameOf(type), archived |-> FALSE,
     muted |-> FALSE, unread |-> NoCounters, pinned |-> << >>]

\* CreateMessage: db.Create(message); the identifier is the primary key.
CreateMessageErr(msgs, id, fail) ==
    IF fail = "CreateMessage" THEN ErrDB
    ELSE IF id \in DOMAIN msgs THEN ErrDuplicate
    ELSE OK

MessageRow(room, user, content, type) ==
    [room |-> room, user |-> user, content |-> content, type |-> type]

\* UpdateRoom: db.Save(room) writes the persisted columns of the room.
UpdateRoomErr(fail) == IF fail = "UpdateRoom" THEN ErrDB ELSE OK

SaveRoom(rooms, id, row) == (id :> row) @@ rooms

\* CreateNotification: db.Create(notification)
CreateNotificationErr(notifs, id, fail) ==
    IF fail = "CreateNotification" THEN ErrDB
    ELSE IF id \in DOMAIN notifs THEN ErrDuplicate
    ELSE OK

NotificationRow(user, type, content) ==
    [user |-> user, type |-> type, content |-> content]

\* ------------------------------------------------------- service: rooms
MemberLists == UNION {[1..n -> Users] : n \in 0..MaxMembers}

\* The Room object a create call builds and puts into the cache.
CachedRoom(id, type, users) ==
    [id |-> id, type |-> type, name |-> NameOf(type), users |-> users,
     last |-> NoLast, archived |-> FALSE, muted |-> FALSE,
     unread |-> NoCounters, pinned |-> << >>]

\* The Room object GetRoom returns for a stored row: the persisted columns,
\* Users and LastMessage at their zero values.
LoadedRoom(id, row) ==
    [id |-> id, type |-> row.type, name |-> row.name, users |-> << >>,
     last |-> NoLast,
     archived |-> row.archived, muted |-> row.muted, unread |-> row.unread,
     pinned |-> row.pinned]

\* The columns db.Save(room) writes for a Room object.
RowOf(room) ==
    [type |-> room.type, name |-> room.name, archived |-> room.archived,
     muted |-> room.muted,
     unread |-> room.unread, pinned |-> room.pinned]

\* What the model keeps of a finished call: the error it returned and, when
\* the calls are traced by name, its name; for SendDirectMessage also
\* whether the pair's room was missing
\* from the store, the room CreateDirectRoom had returned for the pair (if
\* any) and the room the message was recorded in (if it was).
Ret(op, err, missing, created, room) ==
    IF trace = "off" THEN NoRet
    ELSE [op |-> IF trace = "ops" THEN op ELSE "", err |-> err,
          missing |-> missing, created |-> created, room |-> room,
          msg |-> 0]

\* What the model keeps of a finished call on a room: its name, the error
\* it returned and the room and message identifiers it was given.
RetRoom(op, err, roomID, messageID) ==
    IF trace = "ops"
    THEN [op |-> op, err |-> err, missing |-> FALSE, created |-> NoRoom,
          room |-> roomID, msg |-> messageID]
    ELSE Ret(op, err, FALSE, NoRoom, NoRoom)

RetOf(op, err) == Ret(op, err, FALSE, NoRoom, NoRoom)

\* The room CreateDirectRoom returned for the pair, NoRoom if it returned none.
CreatedFor(a, b) ==
    LET rs == {r \in createdDirect : r.users \in {<<a, b>>, <<b, a>>}} IN
    IF rs = {} THEN NoRoom ELSE (CHOOSE r \in rs : TRUE).id

\* CreateDirectRoom / CreateGroupRoom up to s.mu.Lock(): the room is built and
\* persisted; on an error the call returns it.
CreateRoomCall(op, type, users, fail) ==
    /\ Cardinality(DOMAIN dbRooms) < MaxRooms
    /\ \E t \in ClockReadings :
         LET id == generateRoomID(t)
             err == CreateRoomErr(dbRooms, id, fail) IN
         /\ now' = t
         /\ dbRooms' = IF err = OK THEN (id :> RoomRow(type)) @@ dbRooms
                       ELSE dbRooms
         /\ lockWait' = IF err = OK
                        THEN lockWait \cup {CachedRoom(id, type, users)}
                        ELSE lockWait
         /\ ret' = RetOf(op, err)
    /\ UNCHANGED <<repoImpl, trace, frames, dbMessages, dbNotifs, Rooms,
                   Connections, connVars, Broadcast, DirectMessage, hubVars,
                   createdDirect, regOrder, malformed,
                   svcVars, taskVars>>

CreateDirectRoom(userID1, userID2, fail) ==
    CreateRoomCall("CreateDirectRoom", RoomTypeDirect, <<userID1, userID2>>, fail)

CreateGroupRoom(userIDs, fail) ==
    CreateRoomCall("CreateGroupRoom", RoomTypeGroup, userIDs, fail)

\* The rest of CreateDirectRoom / CreateGroupRoom: s.mu.Lock();
\* s.hub.Rooms[room.ID] = room; s.mu.Unlock(); return room.  The lock is not
\* available while the hub is inside a case, where it holds the read lock.
CacheInsert(room) ==
    /\ room \in lockWait
    /\ hubpc = "idle"
    /\ lockWait' = lockWait \ {room}
    /\ Rooms' = (room.id :> room) @@ Rooms
    /\ createdDirect' = IF room.type = RoomTypeDirect
                        THEN createdDirect \cup {room} ELSE createdDirect
    /\ UNCHANGED <<repoImpl, trace, now, frames, dbVars, Connections,
                   connVars, Broadcast, DirectMessage, hubVars, ret, regOrder, malformed,
                   svcVars, taskVars>>

\* ------------------------------------------------- service: membership
\* RemoveUserFromRoom: deletes the room_users row; the table is not read by
\* the service, only the error of the call matters.
RemoveUserFromRoomErr(fail) ==
    IF fail = "RemoveUserFromRoom" THEN ErrDB ELSE OK

\* JoinRoom up to s.mu.Lock(): GetRoom, room.Users = append(room.Users,
\* userID) on the loaded room (whose Users is empty: the column is not
\* stored), UpdateRoom.
JoinRoom(roomID, userID, fail) ==
    LET missing == roomID \notin DOMAIN dbRooms
        errGet == GetRoomErr(dbRooms, roomID, fail)
        errNil == IF errGet = OK /\ missing THEN ErrRoomNotFound ELSE errGet
        errUpd == IF errNil = OK THEN UpdateRoomErr(fail) ELSE errNil
        room == [LoadedRoom(roomID, dbRooms[roomID])
                   EXCEPT !.users = Append(@, userID)] IN
    /\ dbRooms' = IF errUpd = OK THEN SaveRoom(dbRooms, roomID, RowOf(room))
                  ELSE dbRooms
    /\ joinWait' = IF errUpd = OK THEN joinWait \cup {room} ELSE joinWait
    /\ ret' = IF errUpd = OK THEN ret ELSE RetRoom("JoinRoom", errUpd, roomID, 0)
    /\ UNCHANGED <<repoImpl, trace, now, frames, dbMessages, dbNotifs, Rooms,
                   Connections, connVars, Broadcast, DirectMessage, lockWait,
                   hubVars, createdDirect, regOrder, malformed, readWait, taskVars>>

\* The rest of JoinRoom: s.mu.Lock(); s.hub.Rooms[roomID] = room;
\* s.mu.Unlock(); return nil.
JoinRoomInsert(room) ==
    /\ room \in joinWait
    /\ hubpc = "idle"
    /\ joinWait' = joinWait \ {room}
    /\ Rooms' = (room.id :> room) @@ Rooms
    /\ ret' = RetRoom("JoinRoom", OK, room.id, 0)
    /\ UNCHANGED <<repoImpl, trace, now, frames, dbVars, Connections,
                   connVars, Broadcast, DirectMessage, lockWait, hubVars,
                   createdDirect, regOrder, malformed, readWait, taskVars>>

\* LeaveRoom, under s.mu.Lock() from entry to return: the user's first
\* occurrence is cut out of the cached list, then RemoveUserFromRoom is
\* called.
LeaveRoom(roomID, userID, fail) ==
    /\ hubpc = "idle"
    /\ LET cached == roomID \in DOMAIN Rooms
           member == cached /\ \E i \in DOMAIN Rooms[roomID].users :
                                 Rooms[roomID].users[i] = userID
           err == IF ~cached THEN ErrLeaveRoomNotFound
                  ELSE IF ~member THEN ErrUserNotInRoom
                  ELSE RemoveUserFromRoomErr(fail) IN
       /\ Rooms' = IF member
                   THEN [Rooms EXCEPT ![roomID].users = RemoveFirst(@, userID)]
                   ELSE Rooms
       /\ ret' = RetRoom("LeaveRoom", err, roomID, 0)
    /\ UNCHANGED <<repoImpl, trace, now, frames, dbVars, Connections,
                   connVars, Broadcast, DirectMessage, lockWait, hubVars,
                   createdDirect, regOrder, malformed, svcVars, taskVars>>

\* ---------------------------------------------------- service: pinning
\* The message identifiers a caller may pass, stored or not.
MessageArgs == 1..MaxTime

\* A check that never finds the identifier on the list.
AlreadyPinned_Never(pinned, messageID) == FALSE

\* for _, pinnedID := range room.PinnedMessages { if pinnedID == messageID
AlreadyPinned(pinned, messageID) ==
    \E i \in DOMAIN pinned : pinned[i] = messageID

\* PinMessage: GetRoom, return nil if the identifier is on the list, else
\* append it and UpdateRoom.
PinMessage(roomID, messageID, fail) ==
    LET missing == roomID \notin DOMAIN dbRooms
        errGet == GetRoomErr(dbRooms, roomID, fail)
        errNil == IF errGet = OK /\ missing THEN ErrRoomNotFound ELSE errGet
        change == errNil = OK /\ ~AlreadyPinned(dbRooms[roomID].pinned, messageID)
        errUpd == IF change THEN UpdateRoomErr(fail) ELSE errNil
        row == [dbRooms[roomID] EXCEPT !.pinned = Append(@, messageID)] IN
    /\ dbRooms' = IF change /\ errUpd = OK THEN SaveRoom(dbRooms, roomID, row)
                  ELSE dbRooms
    /\ ret' = RetRoom("PinMessage", errUpd, roomID, messageID)
    /\ UNCHANGED <<repoImpl, trace, now, frames, dbMessages, dbNotifs, Rooms,
                   Connections, connVars, Broadcast, DirectMessage, lockWait,
                   hubVars, createdDirect, regOrder, malformed, svcVars, taskVars>>

\* UnpinMessage: GetRoom, cut the first occurrence of the identifier out of
\* the list and UpdateRoom, return nil if it is not on the list.
UnpinMessage(roomID, messageID, fail) ==
    LET missing == roomID \notin DOMAIN dbRooms
        errGet == GetRoomErr(dbRooms, roomID, fail)
        errNil == IF errGet = OK /\ missing THEN ErrRoomNotFound ELSE errGet
        change == errNil = OK /\ AlreadyPinned(dbRooms[roomID].pinned, messageID)
        errUpd == IF change THEN UpdateRoomErr(fail) ELSE errNil
        row == [dbRooms[roomID] EXCEPT !.pinned = RemoveFirst(@, messageID)] IN
    /\ dbRooms' = IF change /\ errUpd = OK THEN SaveRoom(dbRooms, roomID, row)
                  ELSE dbRooms
    /\ ret' = RetRoom("UnpinMessage", errUpd, roomID, messageID)
    /\ UNCHANGED <<repoImpl, trace, now, frames, dbMessages, dbNotifs, Rooms,
                   Connections, connVars, Broadcast, DirectMessage, lockWait,
                   hubVars, createdDirect, regOrder, malformed, svcVars, taskVars>>

\* ---------------------------------------------------- service: messages
WsMessage(type, id, room, user, target, content, op) ==
    [type |-> type, id |-> id, room |-> room, user |-> user,
     target |-> target, content |-> content, src |-> NoConn, op |-> op,
     after |-> 0]

\* A send that reaches the hub channel whatever the persistence calls returned.
Handoff_Regardless(err, m) == {m}

\* if err != nil { return err } ... s.hub.<channel> <- wsMessage: what the call
\* puts on the hub channel, given the outcome of its persistence calls.
Handoff(err, m) == IF err = OK THEN {m} ELSE {}

\* SendDirectMessage up to its send on hub.DirectMessage.
SendDirectMessage(senderID, receiverID, content, fail) ==
    \E t \in ClockReadings :
       LET rid == generateDirectRoomID(senderID, receiverID)
           missing == rid \notin DOMAIN dbRooms
           errGet == GetRoomErr(dbRooms, rid, fail)
           \* if room == nil { ... CreateRoom(room) }
           errCreate == IF errGet = OK /\ missing
                        THEN CreateRoomErr(dbRooms, rid, fail) ELSE errGet
           rooms1 == IF errGet = OK /\ missing /\ errCreate = OK
                     THEN (rid :> RoomRow(RoomTypeDirect)) @@ dbRooms
                     ELSE dbRooms
           mid == generateMessageID(t)
           errMsg == IF errCreate = OK
                     THEN CreateMessageErr(dbMessages, mid, fail)
                     ELSE errCreate
           errUpd == IF errMsg = OK THEN UpdateRoomErr(fail) ELSE errMsg
           m == WsMessage(MessageTypeText, mid, rid, senderID, receiverID,
                          content, "SendDirectMessage") IN
       /\ now' = t
       /\ dbRooms' = IF errUpd = OK THEN SaveRoom(rooms1, rid, rooms1[rid])
                     ELSE rooms1
       /\ dbMessages' = IF errMsg = OK
                        THEN (mid :> MessageRow(rid, senderID, content,
                                                MessageTypeText)) @@ dbMessages
                        ELSE dbMessages
       /\ DirectMessage' = DirectMessage \cup Handoff(errUpd, m)
       /\ ret' = Ret("SendDirectMessage", errUpd, missing,
                     CreatedFor(senderID, receiverID),
                     IF errMsg = OK THEN rid ELSE NoRoom)
       /\ UNCHANGED <<repoImpl, trace, frames, dbNotifs, Rooms, Connections, connVars,
                      Broadcast, lockWait, hubVars, createdDirect, regOrder, malformed,
                   svcVars, taskVars>>

\* The room identifiers a caller may pass: those of stored rooms and one that
\* names no room.
RoomArgs == DOMAIN dbRooms \cup {GhostRoom}

\* SendGroupMessage up to its send on hub.Broadcast.
SendGroupMessage(roomID, userID, content, fail) ==
    \E t \in ClockReadings :
       LET missing == roomID \notin DOMAIN dbRooms
           errGet == GetRoomErr(dbRooms, roomID, fail)
           \* if room == nil { return domain.ErrRoomNotFound }
           errNil == IF errGet = OK /\ missing THEN ErrRoomNotFound ELSE errGet
           mid == generateMessageID(t)
           errMsg == IF errNil = OK
                     THEN CreateMessageErr(dbMessages, mid, fail) ELSE errNil
           errUpd == IF errMsg = OK THEN UpdateRoomErr(fail) ELSE errMsg
           m == WsMessage(MessageTypeText, mid, roomID, userID, NoUser,
                          content, "SendGroupMessage") IN
       /\ now' = t
       /\ dbRooms' = IF errUpd = OK
                     THEN SaveRoom(dbRooms, roomID, dbRooms[roomID])
                     ELSE dbRooms
       /\ dbMessages' = IF errMsg = OK
                        THEN (mid :> MessageRow(roomID, userID, content,
                                                MessageTypeText)) @@ dbMessages
                        ELSE dbMessages
       /\ Broadcast' = Broadcast \cup Handoff(errUpd, m)
       /\ ret' = RetRoom("SendGroupMessage", errUpd, roomID, 0)
       /\ UNCHANGED <<repoImpl, trace, frames, dbNotifs, Rooms, Connections, connVars,
                      DirectMessage, lockWait, hubVars, createdDirect, regOrder, malformed,
                   svcVars, taskVars>>

\* SendTypingIndicator: a typing message for the room goes to hub.Broadcast;
\* nothing is persisted and no room is looked up.  (The calls are bounded by
\* the number of messages the hub has taken.)
SendTypingIndicator(roomID, userID) ==
    /\ Len(hubLog) < MaxTyping
    /\ Broadcast' = Broadcast \cup
         {WsMessage(MessageTypeTyping, 0, roomID, userID, NoUser, "",
                    "SendTypingIndicator")}
    /\ ret' = RetRoom("SendTypingIndicator", OK, roomID, 0)
    /\ UNCHANGED <<repoImpl, trace, now, frames, dbVars, Rooms, Connections,
                   connVars, DirectMessage, lockWait, hubVars, createdDirect,
                   regOrder, malformed, svcVars, taskVars>>

\* SendFileMessage, SendImageMessage, SendVideoMessage and SendAudioMessage
\* share one shape: build the message, CreateMessage, send on hub.Broadcast.
\* They load no room.  The file payload fields are carried through untouched
\* and are left out.
MediaCall(op, type, roomID, userID, fail) ==
    \E t \in ClockReadings :
       LET mid == generateMessageID(t)
           errMsg == CreateMessageErr(dbMessages, mid, fail)
           m == WsMessage(type, mid, roomID, userID, NoUser, "", op) IN
       /\ now' = t
       /\ dbMessages' = IF errMsg = OK
                        THEN (mid :> MessageRow(roomID, userID, "", type))
                             @@ dbMessages
                        ELSE dbMessages
       /\ Broadcast' = Broadcast \cup Handoff(errMsg, m)
       /\ ret' = RetRoom(op, errMsg, roomID, 0)
       /\ UNCHANGED <<repoImpl, trace, frames, dbRooms, dbNotifs, Rooms, Connections,
                      connVars, DirectMessage, lockWait, hubVars, createdDirect, regOrder, malformed,
                   svcVars, taskVars>>

SendFileMessage(roomID, userID, fail) ==
    MediaCall("SendFileMessage", MessageTypeFile, roomID, userID, fail)

SendImageMessage(roomID, userID, fail) ==
    MediaCall("SendImageMessage", MessageTypeImage, roomID, userID, fail)

SendVideoMessage(roomID, userID, fail) ==
    MediaCall("SendVideoMessage", MessageTypeVideo, roomID, userID, fail)

SendAudioMessage(roomID, userID, fail) ==
    MediaCall("SendAudioMessage", MessageTypeAudio, roomID, userID, fail)

\* ------------------------------------------ service: calls on the cache
\* A lookup that answers a miss with the store's error.
CacheLookupErr_StoreError(cache, roomID) ==
    IF roomID \in DOMAIN cache THEN OK ELSE ErrRecordNotFound

\* room, exists := s.hub.Rooms[roomID]; if !exists { return ErrRoomNotFound }
CacheLookupErr(cache, roomID) ==
    IF roomID \in DOMAIN cache THEN OK ELSE ErrRoomNotFound

\* ArchiveRoom, UnarchiveRoom, MuteRoom, UnmuteRoom under s.mu.Lock(): the
\* cached Room object gets the flag, then UpdateRoom saves that object.  The
\* flag stays on the cached object when UpdateRoom fails.
SetRoomFlag(op, roomID, field, value, fail) ==
    /\ hubpc = "idle"
    /\ LET err == CacheLookupErr(Rooms, roomID)
           errUpd == IF err = OK THEN UpdateRoomErr(fail) ELSE err IN
       /\ Rooms' = IF err = OK
                   THEN [Rooms EXCEPT ![roomID][field] = value] ELSE Rooms
       /\ dbRooms' = IF errUpd = OK
                     THEN SaveRoom(dbRooms, roomID, RowOf(Rooms'[roomID]))
                     ELSE dbRooms
       /\ ret' = RetRoom(op, errUpd, roomID, 0)
    /\ UNCHANGED <<repoImpl, trace, now, frames, dbMessages, dbNotifs,
                   Connections, connVars, Broadcast, DirectMessage, lockWait,
                   hubVars, createdDirect, regOrder, malformed, svcVars, taskVars>>

ArchiveRoom(roomID, fail) ==
    SetRoomFlag("ArchiveRoom", roomID, "archived", TRUE, fail)

UnarchiveRoom(roomID, fail) ==
    SetRoomFlag("UnarchiveRoom", roomID, "archived", FALSE, fail)

MuteRoom(roomID, fail) ==
    SetRoomFlag("MuteRoom", roomID, "muted", TRUE, fail)

UnmuteRoom(roomID, fail) ==
    SetRoomFlag("UnmuteRoom", roomID, "muted", FALSE, fail)

\* The names UpdateRoomInfo is called with; "" asks for no change.
NameArgs == {"", "crew"}

\* UpdateRoomInfo: a non-empty name replaces the cached room's name, then
\* UpdateRoom saves the cached object (description and avatar likewise).
UpdateRoomInfo(roomID, name, fail) ==
    /\ hubpc = "idle"
    /\ LET err == CacheLookupErr(Rooms, roomID)
           errUpd == IF err = OK THEN UpdateRoomErr(fail) ELSE err IN
       /\ Rooms' = IF err = OK /\ name # ""
                   THEN [Rooms EXCEPT ![roomID].name = name] ELSE Rooms
       /\ dbRooms' = IF errUpd = OK
                     THEN SaveRoom(dbRooms, roomID, RowOf(Rooms'[roomID]))
                     ELSE dbRooms
       /\ ret' = RetRoom("UpdateRoomInfo", errUpd, roomID, 0)
    /\ UNCHANGED <<repoImpl, trace, now, frames, dbMessages, dbNotifs,
                   Connections, connVars, Broadcast, DirectMessage, lockWait,
                   hubVars, createdDirect, regOrder, malformed, svcVars, taskVars>>

\* GetRoomMessages: a query; only its error matters to the caller's result.
GetRoomMessagesErr(fail) == IF fail = "GetRoomMessages" THEN ErrDB ELSE OK

\* GetRoomHistory under s.mu.RLock(): the cache lookup, then the query.
GetRoomHistory(roomID, fail) ==
    /\ LET err == CacheLookupErr(Rooms, roomID)
           errGet == IF err = OK THEN GetRoomMessagesErr(fail) ELSE err IN
       ret' = RetRoom("GetRoomHistory", errGet, roomID, 0)
    /\ UNCHANGED <<repoImpl, trace, now, frames, dbVars, Rooms, Connections,
                   connVars, Broadcast, DirectMessage, lockWait, hubVars,
                   createdDirect, regOrder, malformed, svcVars, taskVars>>

\* ------------------------------------------------ service: read marks
\* UpdateMessageStatus: db.Save(status); the table is not read by the
\* service, only the error of the call matters.
UpdateMessageStatusErr(fail) ==
    IF fail = "UpdateMessageStatus" THEN ErrDB ELSE OK

\* Counters that keep the user's entry at one.
ReadCounters_NotZeroed(unread, userID) == (userID :> 1) @@ unread

\* if room.UnreadCount == nil { make(...) }; room.UnreadCount[userID] = 0
ReadCounters(unread, userID) == (userID :> 0) @@ unread

\* GetUnreadCount's read room.UnreadCount[userID]: 0 for a nil map or a user
\* without entry.
UnreadCountOf(row, userID) ==
    IF userID \in DOMAIN row.unread THEN row.unread[userID] ELSE 0

\* MarkMessageAsRead up to the room it loaded: UpdateMessageStatus, GetRoom.
MarkMessageAsRead(roomID, userID, messageID, fail) ==
    LET missing == roomID \notin DOMAIN dbRooms
        errSt == UpdateMessageStatusErr(fail)
        errGet == IF errSt = OK THEN GetRoomErr(dbRooms, roomID, fail)
                  ELSE errSt
        errNil == IF errGet = OK /\ missing THEN ErrRoomNotFound ELSE errGet
        call == [room |-> roomID, user |-> userID, msg |-> messageID,
                 row |-> dbRooms[roomID]] IN
    /\ readWait' = IF errNil = OK THEN readWait \cup {call} ELSE readWait
    /\ ret' = IF errNil = OK THEN ret
              ELSE RetRoom("MarkMessageAsRead", errNil, roomID, messageID)
    /\ UNCHANGED <<repoImpl, trace, now, frames, dbVars, Rooms, Connections,
                   connVars, Broadcast, DirectMessage, lockWait, hubVars,
                   createdDirect, regOrder, malformed, joinWait, taskVars>>

\* The rest of MarkMessageAsRead: the user's counter is zeroed on the loaded
\* room, UpdateRoom writes the room, the read receipt goes to hub.Broadcast.
MarkReadSave(call, fail) ==
    /\ call \in readWait
    /\ readWait' = readWait \ {call}
    /\ LET errUpd == UpdateRoomErr(fail)
           row == [call.row EXCEPT !.unread = ReadCounters(@, call.user)]
           m == WsMessage(MessageTypeRead, 0, call.room, call.user, NoUser,
                          "", "MarkMessageAsRead") IN
       /\ dbRooms' = IF errUpd = OK THEN SaveRoom(dbRooms, call.room, row)
                     ELSE dbRooms
       /\ Broadcast' = Broadcast \cup Handoff(errUpd, m)
       /\ ret' = RetRoom("MarkMessageAsRead", errUpd, call.room, call.msg)
    /\ UNCHANGED <<repoImpl, trace, now, frames, dbMessages, dbNotifs, Rooms,
                   Connections, connVars, DirectMessage, lockWait, hubVars,
                   createdDirect, regOrder, malformed, joinWait, taskVars>>

\* --------------------------------------------- service: notifications
\* The three notification senders share one shape: build the notification,
\* CreateNotification, build the message (Type, ID, UserID, Content; TargetID
\* is not set), send on hub.DirectMessage.
NotifyCall(op, type, userID, content, fail) ==
    \E t \in ClockReadings :
       LET nid == generateNotificationID(t)
           err == CreateNotificationErr(dbNotifs, nid, fail)
           m == WsMessage(type, nid, NoRoom, userID, NoUser, content, op) IN
       /\ now' = t
       /\ dbNotifs' = IF err = OK
                      THEN (nid :> NotificationRow(userID, type, content))
                           @@ dbNotifs
                      ELSE dbNotifs
       /\ DirectMessage' = DirectMessage \cup Handoff(err, m)
       /\ ret' = RetOf(op, err)
       /\ UNCHANGED <<repoImpl, trace, frames, dbRooms, dbMessages, Rooms, Connections,
                      connVars, Broadcast, lockWait, hubVars, createdDirect, regOrder, malformed,
                   svcVars, taskVars>>

SendTaskUpdateNotification(userID, content, fail) ==
    NotifyCall("SendTaskUpdateNotification", MessageTypeTaskUpdate, userID,
               content, fail)

SendMentionNotification(userID, content, fail) ==
    NotifyCall("SendMentionNotification", MessageTypeMention, userID, content,
               fail)

SendSystemNotification(userID, content, fail) ==
    NotifyCall("SendSystemNotification", MessageTypeSystem, userID, content,
               fail)

\* ---------------------------------------------------------------- tasks
StatusPending == "pending"
StatusInProgress == "in_progress"
StatusCompleted == "completed"
StatusDeleted == "deleted"
TaskStatuses ==
    {StatusPending, StatusInProgress, StatusCompleted, StatusDeleted}

ErrInvalidStatusTransition == "invalid status transition"
ErrUnauthorized == "unauthorized to perform this action on the task"

Employee == "employee"
Employer == "employer"

\* The users table: one employer, every other user an employee.
UserRole(u) == IF u = 1 THEN Employer ELSE Employee

TaskIds == 1..MaxTasks

\* isValidStatusTransition: switch current { ... }
isValidStatusTransition(current, next) ==
    IF current = StatusPending
    THEN next = StatusInProgress \/ next = StatusCompleted
    ELSE IF current = StatusInProgress THEN next = StatusCompleted
    ELSE FALSE

\* NewTask: Status: StatusPending.
NewTask(creatorID, assigneeID) ==
    [status |-> StatusPending, creator |-> creatorID, assignee |-> assigneeID]

RetTask(op, err, taskID) == RetRoom(op, err, NoRoom, taskID)

\* CreateTask: the creator must be an employer, the assignee an employee; the
\* new task is stored under a fresh identifier.
CreateTask(creatorID, assigneeID) ==
    /\ Cardinality(DOMAIN taskStore) < MaxTasks
    /\ LET id == Cardinality(DOMAIN taskStore) + 1
           err == IF UserRole(creatorID) # Employer THEN ErrUnauthorized
                  ELSE IF UserRole(assigneeID) # Employee THEN ErrUnauthorized
                  ELSE OK IN
       /\ taskStore' = IF err = OK
                       THEN (id :> NewTask(creatorID, assigneeID)) @@ taskStore
                       ELSE taskStore
       /\ ret' = RetTask("CreateTask", err, IF err = OK THEN id ELSE 0)
    /\ UNCHANGED <<repoImpl, trace, now, frames, dbVars, Rooms, Connections,
                   connVars, Broadcast, DirectMessage, lockWait, hubVars,
                   createdDirect, regOrder, malformed, svcVars, taskCalls>>

\* UpdateTaskStatus up to the task it loaded: taskRepo.GetByID returns the
\* stored row or gorm's error.
UpdateTaskStatus(taskID, userID, newStatus) ==
    /\ Cardinality(taskCalls) < MaxCallers
    /\ IF taskID \in DOMAIN taskStore
       THEN /\ taskCalls' = taskCalls \cup
                  {[task |-> taskID, user |-> userID, new |-> newStatus,
                    t |-> taskStore[taskID]]}
            /\ ret' = ret
       ELSE /\ taskCalls' = taskCalls
            /\ ret' = RetTask("UpdateTaskStatus", ErrRecordNotFound, taskID)
    /\ UNCHANGED <<repoImpl, trace, now, frames, dbVars, Rooms, Connections,
                   connVars, Broadcast, DirectMessage, lockWait, hubVars,
                   createdDirect, regOrder, malformed, svcVars, taskStore>>

\* The rest of UpdateTaskStatus: the authorization checks, t.UpdateStatus on
\* the loaded task and taskRepo.Update, which saves the loaded task.
UpdateTaskStatusSave(call) ==
    /\ call \in taskCalls
    /\ taskCalls' = taskCalls \ {call}
    /\ LET err == IF /\ UserRole(call.user) = Employee
                     /\ call.t.assignee # call.user
                  THEN ErrUnauthorized
                  ELSE IF ~isValidStatusTransition(call.t.status, call.new)
                  THEN ErrInvalidStatusTransition
                  ELSE OK
           t == [call.t EXCEPT !.status = call.new] IN
       /\ taskStore' = IF err = OK THEN (call.task :> t) @@ taskStore
                       ELSE taskStore
       /\ ret' = RetTask("UpdateTaskStatus", err, call.task)
    /\ UNCHANGED <<repoImpl, trace, now, frames, dbVars, Rooms, Connections,
                   connVars, Broadcast, DirectMessage, lockWait, hubVars,
                   createdDirect, regOrder, malformed, svcVars>>

\* ------------------------------------------------------- specifications
NoFail == {"none"}

\* cmd/api/wire/wire.go builds the service with postgres.NewChatRepository.
WiredInit == Init /\ repoImpl = "postgres" /\ trace = "off"

\* Either repository implementation of the source, the outcome of the calls
\* observed.
AnyRepoInit == Init /\ trace = "calls"

\* The wired repository, every call observed by name and arguments.
WiredOpsInit == Init /\ repoImpl = "postgres" /\ trace = "ops"
ConnNext ==
    \/ \E u \in Users : HandleConnection(u)
    \/ \E c \in ConnIds : HubRegister(c)
    \/ \E c \in ConnIds : ReaderFail(c)
    \/ \E c \in ConnIds : HubUnregister(c)

HubNext ==
    \/ \E m \in DirectMessage : HubRecvDirect(m)
    \/ \E m \in Broadcast : HubRecvBroadcast(m)
    \/ HubSend

\* The hub serving only the DirectMessage channel, or only Broadcast.
DirectHubNext == (\E m \in DirectMessage : HubRecvDirect(m)) \/ HubSend

BroadcastHubNext == (\E m \in Broadcast : HubRecvBroadcast(m)) \/ HubSend

FrameNext == \E c \in ConnIds : ReaderFrame(c)

MalformedNext == \E c \in ConnIds : ReaderMalformed(c)

GroupRoomNext(F) ==
    \/ \E us \in MemberLists, f \in F \cap {"none", "CreateRoom"} :
         CreateGroupRoom(us, f)
    \/ \E r \in lockWait : CacheInsert(r)

DirectRoomNext(F) ==
    \/ \E a, b \in Users, f \in F \cap {"none", "CreateRoom"} :
         a # b /\ CreateDirectRoom(a, b, f)
    \/ \E r \in lockWait : CacheInsert(r)

SendGroupNext(F, U, C) ==
    \E r \in RoomArgs, u \in U, c \in C,
       f \in F \cap {"none", "GetRoom", "CreateMessage", "UpdateRoom"} :
      SendGroupMessage(r, u, c, f)

SendDirectNext(F, U, C) ==
    \E a \in U, b \in Users, c \in C,
       f \in F \cap {"none", "GetRoom", "CreateRoom", "CreateMessage",
                     "UpdateRoom"} :
      a # b /\ SendDirectMessage(a, b, c, f)

JoinNext(F, U) ==
    \/ \E r \in RoomArgs, u \in U, f \in F \cap {"none", "GetRoom", "UpdateRoom"} :
         JoinRoom(r, u, f)
    \/ \E room \in joinWait : JoinRoomInsert(room)

LeaveNext(F, U) ==
    \E r \in RoomArgs, u \in U, f \in F \cap {"none", "RemoveUserFromRoom"} :
      LeaveRoom(r, u, f)

PinNext(F, M) ==
    \E r \in RoomArgs, m \in M, f \in F \cap {"none", "GetRoom", "UpdateRoom"} :
      PinMessage(r, m, f) \/ UnpinMessage(r, m, f)

CacheNext(F) ==
    \/ \E r \in RoomArgs, f \in F \cap {"none", "UpdateRoom"} :
         \/ ArchiveRoom(r, f)
         \/ UnarchiveRoom(r, f)
         \/ MuteRoom(r, f)
         \/ UnmuteRoom(r, f)
         \/ \E name \in NameArgs : UpdateRoomInfo(r, name, f)
    \/ \E r \in RoomArgs, f \in F \cap {"none", "GetRoomMessages"} :
         GetRoomHistory(r, f)

ReadNext(F, U, M) ==
    \/ \E r \in RoomArgs, u \in U, m \in M,
          f \in F \cap {"none", "UpdateMessageStatus", "GetRoom"} :
         MarkMessageAsRead(r, u, m, f)
    \/ \E call \in readWait, f \in F \cap {"none", "UpdateRoom"} :
         MarkReadSave(call, f)

TypingNext(U) ==
    \E r \in RoomArgs, u \in U : SendTypingIndicator(r, u)

MediaNext(F, U, R) ==
    \E r \in R, u \in U, f \in F \cap {"none", "CreateMessage"} :
      \/ SendFileMessage(r, u, f)
      \/ SendImageMessage(r, u, f)
      \/ SendVideoMessage(r, u, f)
      \/ SendAudioMessage(r, u, f)

NotifyNext(F, U, C) ==
    \E u \in U, c \in C, f \in F \cap {"none", "CreateNotification"} :
      \/ SendTaskUpdateNotification(u, c, f)
      \/ SendMentionNotification(u, c, f)
      \/ SendSystemNotification(u, c, f)

TaskNext(U) ==
    \/ \E a, b \in U : CreateTask(a, b)
    \/ \E id \in TaskIds, u \in U, st \in TaskStatuses :
         UpdateTaskStatus(id, u, st)
    \/ \E call \in taskCalls : UpdateTaskStatusSave(call)

\* The whole service.
Next ==
    \/ ConnNext \/ HubNext \/ FrameNext
    \/ GroupRoomNext(FailPoints) \/ DirectRoomNext(FailPoints)
    \/ SendGroupNext(FailPoints, Users, Contents)
    \/ SendDirectNext(FailPoints, Users, Contents)
    \/ MediaNext(FailPoints, Users, RoomArgs)
    \/ NotifyNext(FailPoints, Users, Contents)
    \/ JoinNext(FailPoints, Users) \/ LeaveNext(FailPoints, Users)
    \/ PinNext(FailPoints, MessageArgs) \/ CacheNext(FailPoints)
    \/ ReadNext(FailPoints, Users, MessageArgs)
    \/ TaskNext(Users)
    \/ TypingNext(Users)
    \/ MalformedNext

Spec == Init /\ [][Next]_vars

\* Connections, group rooms and inbound frames: the routing of the hub.
HubSpecNext == ConnNext \/ HubNext \/ FrameNext \/ GroupRoomNext(NoFail)
HubSpec == WiredInit /\ [][HubSpecNext]_vars

\* Connections, group rooms and SendGroupMessage.
RoomSpecNext ==
    \/ ConnNext \/ BroadcastHubNext \/ GroupRoomNext(NoFail)
    \/ SendGroupNext(NoFail, Users, {"hi"})
RoomSpec == WiredInit /\ [][RoomSpecNext]_vars

\* Connections, direct rooms and SendDirectMessage.
PairSpecNext ==
    \/ ConnNext \/ DirectHubNext \/ DirectRoomNext(NoFail)
    \/ SendDirectNext(NoFail, Users, {"hi"})
PairSpec == AnyRepoInit /\ [][PairSpecNext]_vars

\* Connections and the notification senders, the hub serving the channel the
\* senders use.
NotifySpecNext ==
    \/ ConnNext
    \/ \E m \in DirectMessage : HubRecvDirect(m)
    \/ NotifyNext(NoFail, Users, Contents)
NotifySpec == WiredInit /\ [][NotifySpecNext]_vars

\* Every send operation with every persistence failure, called by one user;
\* the senders stay blocked on the hub channels.
SendSpecNext ==
    \/ DirectRoomNext(NoFail)
    \/ SendGroupNext(FailPoints, {1}, {"hi"})
    \/ SendDirectNext(FailPoints, {1}, {"hi"})
    \/ MediaNext(FailPoints, {1}, {GhostRoom})
    \/ NotifyNext(FailPoints, {1}, {"hi"})
SendSpec == AnyRepoInit /\ [][SendSpecNext]_vars

\* Group rooms and their membership: CreateGroupRoom, JoinRoom, LeaveRoom
\* with every persistence failure, and SendGroupMessage to the hub.
MemberSpecNext ==
    \/ GroupRoomNext(NoFail)
    \/ JoinNext(FailPoints, Users)
    \/ LeaveNext(FailPoints, Users)
MemberSpec == WiredOpsInit /\ [][MemberSpecNext]_vars

\* Group rooms, their messages and their pinned lists, PinMessage and
\* UnpinMessage with every persistence failure.
PinSpecNext ==
    \/ GroupRoomNext(NoFail)
    \/ SendGroupNext(NoFail, {1}, {"hi"})
    \/ PinNext(FailPoints, MessageArgs)
PinSpec == WiredOpsInit /\ [][PinSpecNext]_vars

\* Group rooms and MarkMessageAsRead calls of every user for one message,
\* overlapping, with every persistence failure.
ReadSpecNext ==
    \/ GroupRoomNext(NoFail)
    \/ ReadNext(FailPoints, Users, {1})
ReadSpec == WiredOpsInit /\ [][ReadSpecNext]_vars

\* Group rooms and the calls that work on the cached room, with every
\* persistence failure.
CacheSpecNext ==
    \/ GroupRoomNext(NoFail)
    \/ CacheNext(FailPoints)
CacheSpec == WiredOpsInit /\ [][CacheSpecNext]_vars

\* Group rooms, SendGroupMessage and the four media senders called by one
\* user for stored rooms and for a room the store lacks; the senders stay
\* blocked on hub.Broadcast.
GroupSendSpecNext ==
    \/ GroupRoomNext(NoFail)
    \/ SendGroupNext(NoFail, {1}, {"hi"})
    \/ MediaNext(NoFail, {1}, RoomArgs)
GroupSendSpec == WiredOpsInit /\ [][GroupSendSpecNext]_vars

\* The task service: tasks created and their status updated by calls that
\* may overlap.
TaskSpecNext == TaskNext(Users)
TaskSpec == WiredOpsInit /\ [][TaskSpecNext]_vars

\* Connections, frames and the hub, with the scheduling the runtime gives:
\* the hub's select loop takes a case whenever one of its channels has a
\* sender waiting, and a send of the hub to a writer that is receiving
\* happens.  No step closes a connection's Send channel (no code does), so
\* writePump's branch for a closed channel has no step either.
HubStep ==
    \/ HubNext
    \/ \E c \in ConnIds : HubRegister(c)
    \/ \E c \in ConnIds : HubUnregister(c)
WriterSpecNext == ConnNext \/ HubNext \/ FrameNext
WriterSpec == WiredInit /\ [][WriterSpecNext]_vars /\ WF_vars(HubStep)

\* Group rooms with the calls that load the stored room, change it and write
\* it back: PinMessage and UnpinMessage, and MarkMessageAsRead, whose load
\* and write are separate steps, so that a call runs between them.
StoredRoomSpecNext ==
    \/ GroupRoomNext(NoFail)
    \/ PinNext(NoFail, {1})
    \/ ReadNext(NoFail, {1}, {1})
StoredRoomSpec == WiredOpsInit /\ [][StoredRoomSpecNext]_vars

\* Group rooms, LeaveRoom and the calls that work on the cached room, with
\* every persistence failure.
CacheFailSpecNext ==
    \/ GroupRoomNext(NoFail)
    \/ LeaveNext(FailPoints, Users)
    \/ CacheNext(FailPoints)
CacheFailSpec == WiredOpsInit /\ [][CacheFailSpecNext]_vars

\* Group rooms and typing indicators, the hub taking the messages from
\* Broadcast (nobody is connected, so it sends nothing).
TypingSpecNext ==
    \/ GroupRoomNext(NoFail)
    \/ TypingNext(Users)
    \/ \E m \in Broadcast : HubRecvBroadcast(m)
TypingSpec == WiredOpsInit /\ [][TypingSpecNext]_vars

\* Connections whose clients send well-formed and malformed frames, and the
\* hub.
DropSpecNext == ConnNext \/ HubNext \/ FrameNext \/ MalformedNext
DropSpec == WiredInit /\ [][DropSpecNext]_vars

\* ------------------------------------------------------------ properties
\* The hub has finished the case of the i-th message it took.
Processed(i) == i < Len(hubLog) \/ hubpc = "idle"

\* How many times connection c stands in the sequence of targets ts.
Occurrences(ts, c) == Cardinality({k \in DOMAIN ts : ts[k] = c})

\* The deliveries on connection c of the i-th message the hub took.
Deliveries(c, i) == {k \in DOMAIN received[c] : received[c][k].ord = i}

\* The i-th message the hub took is a message for a room held in the cache.
RoomEntry(i) ==
    /\ hubLog[i].chan = "Broadcast"
    /\ hubLog[i].msg.room # NoRoom
    /\ hubLog[i].cached

NotifyOps == {"SendTaskUpdateNotification", "SendMentionNotification",
              "SendSystemNotification"}

\* C1, delivery: once the hub has processed a message for a cached room,
\* every member connected at that moment has been handed exactly that
\* message, and each connection is handed messages in the order the hub took
\* them.
InHubOrder ==
    /\ \A i \in DOMAIN hubLog : \A k \in DOMAIN hubLog[i].users :
         LET c == hubLog[i].table[hubLog[i].users[k]] IN
         (RoomEntry(i) /\ Processed(i) /\ c # NoConn) =>
           \E d \in Deliveries(c, i) : received[c][d].msg = hubLog[i].msg
    /\ \A c \in ConnIds : \A j, k \in DOMAIN received[c] :
         j < k => received[c][j].ord <= received[c][k].ord

\* C1, last message: the step in which the hub finishes a message for a
\* cached room leaves that message as the room's last-message summary.
LastMessageSet ==
    (/\ hubpc' = "idle"
     /\ hubpc # "idle" \/ Len(hubLog') > Len(hubLog)
     /\ hubLog' # << >>
     /\ LET e == hubLog'[Len(hubLog')] IN
        e.chan = "Broadcast" /\ e.msg.room # NoRoom /\ e.cached)
    => LET m == hubLog'[Len(hubLog')].msg IN
       /\ m.room \in DOMAIN Rooms'
       /\ Rooms'[m.room].last =
            [id |-> m.id, room |-> m.room, user |-> m.user,
             content |-> m.content, type |-> m.type]

\* C1: messages accepted for one room reach every member that stays
\* connected in the order the hub took them, and when the hub finishes a room
\* message the room's last-message summary is that message.
C1_RoomOrderAndLastMessage == [][InHubOrder' /\ LastMessageSet]_vars

\* C1 witness: two connections have both been handed the same two messages of
\* one room, and the room's summary is the later of the two.
C1_Witness ==
    /\ hubpc = "idle"
    /\ Len(hubLog) >= 2
    /\ RoomEntry(1) /\ RoomEntry(2)
    /\ hubLog[1].msg.room = hubLog[2].msg.room
    /\ hubLog[2].msg.room \in DOMAIN Rooms
    /\ Rooms[hubLog[2].msg.room].last.id = hubLog[2].msg.id
    /\ \E c1, c2 \in ConnIds :
         /\ c1 # c2
         /\ \A c \in {c1, c2} :
              /\ Len(received[c]) = 2
              /\ received[c][1].ord = 1 /\ received[c][2].ord = 2

\* C2: every message the hub takes for a cached room is enqueued exactly once
\* to the connection of each member connected at that moment, and to no other
\* connection.
C2_ExactlyOncePerMember ==
    \A i \in DOMAIN hubLog : RoomEntry(i) =>
      \A c \in ConnIds :
        Occurrences(hubLog[i].targets, c) =
          IF \E k \in DOMAIN hubLog[i].users :
                 hubLog[i].table[hubLog[i].users[k]] = c
          THEN 1 ELSE 0

\* The receiver of a stored direct message: the member of the pair named by
\* the room identifier who is not the sender.
ReceiverOf(row) == IF row.room[2] = row.user THEN row.room[3] ELSE row.room[2]

\* C3: a message handed over by SendDirectMessage(A, B, content) is a text
\* message with the stored content; it is delivered on the connection B has
\* at the moment the hub takes it, once it is processed exactly once, and on
\* no other connection (on none at all when B has no connection then).
C3_DirectDelivery ==
    \A i \in DOMAIN hubLog : hubLog[i].msg.op = "SendDirectMessage" =>
      LET e == hubLog[i]
          m == e.msg IN
      /\ m.id \in DOMAIN dbMessages
      /\ m.type = MessageTypeText
      /\ m.content = dbMessages[m.id].content
      /\ m.user = dbMessages[m.id].user
      /\ LET cB == e.table[ReceiverOf(dbMessages[m.id])] IN
         /\ \A c \in ConnIds :
              Cardinality(Deliveries(c, i)) <= IF c = cB THEN 1 ELSE 0
         /\ (Processed(i) /\ cB # NoConn) =>
              \E d \in Deliveries(cB, i) : received[cB][d].msg = m

\* C3 witness: one direct message was taken while the receiver had no
\* connection and reached nobody, a later one was delivered on the connection
\* the receiver had by then.
C3_Witness ==
    /\ hubpc = "idle"
    /\ Len(hubLog) = 2
    /\ hubLog[1].msg.op = "SendDirectMessage"
    /\ hubLog[2].msg.op = "SendDirectMessage"
    /\ hubLog[1].msg.target = hubLog[2].msg.target
    /\ hubLog[1].table[hubLog[1].msg.target] = NoConn
    /\ \A c \in ConnIds : Deliveries(c, 1) = {}
    /\ LET cB == hubLog[2].table[hubLog[2].msg.target] IN
       /\ cB # NoConn
       /\ Cardinality(Deliveries(cB, 2)) = 1
       /\ \A c \in ConnIds \ {cB} : received[c] = << >>

\* The hub is inside a case, sending to a connection whose writePump has
\* returned: nothing will ever receive from that connection's Send channel.
HubStuck ==
    /\ hubpc \in {"sendB", "sendD"}
    /\ writer[Head(hubTargets)] = "done"

\* C4: the hub never blocks for good on the enqueue to one connection.
C4_HubNeverBlocks == ~HubStuck

\* C5: a connection whose read has failed and which waits to hand itself to
\* Unregister gets its entry removed: the hub is not halted while it waits.
C5_FaultedConnectionUnregistered ==
    \A c \in ConnIds : reader[c] = "unreg" => ~HubStuck

\* The connection the hub registered last for user u, NoConn if none.
LastRegistered(u) ==
    LET ks == {k \in DOMAIN regOrder : connUser[regOrder[k]] = u} IN
    IF ks = {} THEN NoConn
    ELSE regOrder[CHOOSE k \in ks : \A j \in ks : j <= k]

\* C6: the entry the table holds for a user is the connection registered last
\* for that user, and every message delivered on a connection was taken by
\* the hub while that connection was its user's entry.
C6_LastRegisteredWins ==
    /\ \A u \in Users :
         Connections[u] # NoConn => Connections[u] = LastRegistered(u)
    /\ \A c \in ConnIds : \A k \in DOMAIN received[c] :
         hubLog[received[c][k].ord].table[connUser[c]] = c

\* C6 witness: two connections of one user were registered one after the
\* other, and a message taken afterwards was delivered on the second.
C6_Witness ==
    \E c1, c2 \in ConnIds :
      /\ c1 # c2
      /\ connUser[c1] = connUser[c2]
      /\ regOrder = <<c1, c2>>
      /\ Connections[connUser[c2]] = c2
      /\ received[c1] = << >>
      /\ received[c2] # << >>

\* C7: a notification the hub takes while its user has a connection is
\* enqueued to that connection, once.
C7_NotificationDelivered ==
    \A i \in DOMAIN hubLog :
      (/\ hubLog[i].msg.op \in NotifyOps
       /\ hubLog[i].table[hubLog[i].msg.user] # NoConn)
      => hubLog[i].targets = <<hubLog[i].table[hubLog[i].msg.user]>>

\* C8: SendDirectMessage for a pair whose room is not in the store does not
\* return the record-not-found error.
C8_LazyDirectRoom == ret.missing => ret.err # ErrRecordNotFound

\* C9: after CreateDirectRoom returned a room for a pair, SendDirectMessage
\* between the two succeeds (no write being refused by the store) and records
\* its message in that room.
C9_SameDirectRoom ==
    (ret.created # NoRoom /\ ret.err \notin {ErrDB, ErrDuplicate})
    => (ret.err = OK /\ ret.room = ret.created)

\* The message a send operation handed to the hub is in the store, with the
\* room it names where the operation loads one.
Persisted(m, rooms, msgs, notifs) ==
    IF m.op \in NotifyOps
    THEN /\ m.id \in DOMAIN notifs
         /\ notifs[m.id] = [user |-> m.user, type |-> m.type,
                            content |-> m.content]
    ELSE /\ m.id \in DOMAIN msgs
         /\ msgs[m.id] = [room |-> m.room, user |-> m.user,
                          content |-> m.content, type |-> m.type]
         /\ m.op \in {"SendDirectMessage", "SendGroupMessage"}
              => m.room \in DOMAIN rooms

\* One step of a send operation: what it adds to the hub channels is stored
\* and it returns no error; if it returns an error it adds nothing.
PersistedBeforeHandoff ==
    LET sent == (Broadcast' \cup DirectMessage')
                  \ (Broadcast \cup DirectMessage) IN
    /\ \A m \in sent :
         ret'.err = OK /\ Persisted(m, dbRooms', dbMessages', dbNotifs')
    /\ (ret' # ret /\ ret'.err # OK) => sent = {}

\* C10: a send operation hands its message to the hub only after all its
\* persistence calls succeeded; when one fails it returns the error and hands
\* nothing over.
C10_PersistenceBeforeHandoff == [][PersistedBeforeHandoff]_vars

\* C10 witness: a send stored its message, the following room update failed,
\* the call returned the error and the hub channels stayed empty.
C10_Witness ==
    /\ ret.err = ErrDB
    /\ DOMAIN dbMessages # {}
    /\ Broadcast = {} /\ DirectMessage = {}

\* The users on a member list.
Members(us) == {us[k] : k \in DOMAIN us}

\* C11: no cached room lists a user twice.
C11_NoDuplicateMembers ==
    \A r \in DOMAIN Rooms : \A j, k \in DOMAIN Rooms[r].users :
      j # k => Rooms[r].users[j] # Rooms[r].users[k]

\* C12: the step in which a JoinRoom call writes its room into the cache
\* keeps every user that was on the cached member list of that room and adds
\* the joining user.
JoinKeepsMembers ==
    \A room \in joinWait \ joinWait' :
      room.id \in DOMAIN Rooms =>
        /\ Members(Rooms[room.id].users) \subseteq Members(Rooms'[room.id].users)
        /\ room.users[Len(room.users)] \in Members(Rooms'[room.id].users)

C12_JoinRoomAddsMember == [][JoinKeepsMembers]_vars

\* A call has returned in this step.
CallStep == ret' # ret \/ dbRooms' # dbRooms

\* No stored room lists a pinned identifier twice.
NoDuplicatePins ==
    \A r \in DOMAIN dbRooms : \A j, k \in DOMAIN dbRooms[r].pinned :
      j # k => dbRooms[r].pinned[j] # dbRooms[r].pinned[k]

\* The sequence s without its first entry equal to x, the other entries in
\* their order.
Without(s, x) ==
    LET i == CHOOSE i \in DOMAIN s : s[i] = x /\ \A j \in 1..(i - 1) : s[j] # x IN
    [k \in 1..(Len(s) - 1) |-> IF k < i THEN s[k] ELSE s[k + 1]]

\* One PinMessage or UnpinMessage call on a stored room: a no-op call (pin of
\* a listed identifier, unpin of an unlisted one) succeeds unless the store
\* fails and leaves the store as it was; a call that succeeds otherwise puts
\* the identifier at the end of the list, or takes it out and keeps the order
\* of the rest.
PinStep ==
    (CallStep /\ ret'.op \in {"PinMessage", "UnpinMessage"}
       /\ ret'.room \in DOMAIN dbRooms) =>
    LET old == dbRooms[ret'.room].pinned
        new == dbRooms'[ret'.room].pinned
        listed == \E k \in DOMAIN old : old[k] = ret'.msg
        noop == listed <=> ret'.op = "PinMessage" IN
    /\ noop => (ret'.err \in {OK, ErrDB} /\ dbRooms' = dbRooms)
    /\ (~noop /\ ret'.err = OK) =>
         new = IF ret'.op = "PinMessage" THEN Append(old, ret'.msg)
               ELSE Without(old, ret'.msg)
    /\ ret'.err # OK => dbRooms' = dbRooms

\* C13: pinning a listed identifier and unpinning an unlisted one succeed and
\* change nothing; the pinned list never holds an identifier twice and keeps
\* the identifiers in the order they were pinned.
C13_PinIdempotent == [][PinStep /\ NoDuplicatePins']_vars

\* C13 witness: with two identifiers pinned, PinMessage was called again for
\* the first of them and returned success, the list as it was.
C13_Witness ==
    /\ ret.op = "PinMessage" /\ ret.err = OK
    /\ ret.room \in DOMAIN dbRooms
    /\ Len(dbRooms[ret.room].pinned) = 2
    /\ dbRooms[ret.room].pinned[1] = ret.msg

\* C14: every pinned identifier of a stored room names a stored message of
\* that room.
C14_PinnedMessagesExist ==
    \A r \in DOMAIN dbRooms : \A k \in DOMAIN dbRooms[r].pinned :
      /\ dbRooms[r].pinned[k] \in DOMAIN dbMessages
      /\ dbMessages[dbRooms[r].pinned[k]].room = r

\* The step in which a MarkMessageAsRead call writes its room and succeeds
\* leaves the caller's stored counter at 0 and the stored counter of every
\* other user at its value.
ReadStep ==
    \A call \in readWait \ readWait' :
      ret'.err = OK =>
        /\ call.room \in DOMAIN dbRooms'
        /\ LET old == dbRooms[call.room]
               new == dbRooms'[call.room] IN
           /\ call.user \in DOMAIN new.unread
           /\ UnreadCountOf(new, call.user) = 0
           /\ \A u \in Users \ {call.user} :
                UnreadCountOf(new, u) = UnreadCountOf(old, u)

\* C15: MarkMessageAsRead sets the caller's unread counter of the room to 0
\* and leaves the counter of every other user at the value it had, also when
\* calls of different users on the room overlap.
C15_MarkReadZeroesOwnCounter == [][ReadStep]_vars

\* C15 witness: two users' calls on one room overlapped (the second loaded
\* the room before the first wrote it) and both succeeded: both receipts are
\* out, the stored room is the one the second call wrote.
C15_Witness ==
    /\ ret.op = "MarkMessageAsRead" /\ ret.err = OK
    /\ readWait = {}
    /\ \E m1, m2 \in Broadcast :
         /\ m1.op = "MarkMessageAsRead" /\ m2.op = "MarkMessageAsRead"
         /\ m1.room = ret.room /\ m2.room = ret.room
         /\ m1.user # m2.user
         /\ DOMAIN dbRooms[ret.room].unread = {m2.user}

\* A step of one of the six calls on room roomID.
CacheCall(roomID) ==
    \/ \E f \in FailPoints :
         \/ ArchiveRoom(roomID, f)
         \/ UnarchiveRoom(roomID, f)
         \/ MuteRoom(roomID, f)
         \/ UnmuteRoom(roomID, f)
         \/ GetRoomHistory(roomID, f)
    \/ \E name \in NameArgs, f \in FailPoints : UpdateRoomInfo(roomID, name, f)

CacheMiss ==
    \A roomID \in RoomArgs :
      CacheCall(roomID) /\ roomID \notin DOMAIN Rooms =>
        /\ ret'.err = ErrRoomNotFound
        /\ UNCHANGED <<Rooms, dbVars>>

\* C16: ArchiveRoom, UnarchiveRoom, MuteRoom, UnmuteRoom, UpdateRoomInfo and
\* GetRoomHistory called for a room that is not in the cache return "room
\* not found" and change neither the cache nor the store, also when the
\* store has the room.
C16_CacheMissRoomNotFound == [][CacheMiss]_vars

\* C16 witness: one of the calls returned "room not found" for a room the
\* store has and the cache lacks.
C16_Witness ==
    /\ ret.op \in {"ArchiveRoom", "UnarchiveRoom", "MuteRoom", "UnmuteRoom",
                   "UpdateRoomInfo", "GetRoomHistory"}
    /\ ret.err = ErrRoomNotFound
    /\ ret.room \in DOMAIN dbRooms
    /\ ret.room \notin DOMAIN Rooms

MediaOps ==
    {"SendFileMessage", "SendImageMessage", "SendVideoMessage",
     "SendAudioMessage"}

\* C17: SendGroupMessage for a room the store lacks returns "room not found",
\* persists no message and puts nothing on Broadcast; the file, image, video
\* and audio senders check no room: a call that succeeded has persisted its
\* message and handed it to Broadcast, whatever the room identifier.
C17_GroupSendChecksRoom ==
    /\ ret.op = "SendGroupMessage" /\ ret.room \notin DOMAIN dbRooms =>
         /\ ret.err = ErrRoomNotFound
         /\ \A id \in DOMAIN dbMessages :
              dbMessages[id].room = ret.room =>
                dbMessages[id].type # MessageTypeText
         /\ \A m \in Broadcast :
              m.room = ret.room => m.op # "SendGroupMessage"
    /\ ret.op \in MediaOps /\ ret.err = OK =>
         \E m \in Broadcast :
           /\ m.op = ret.op /\ m.room = ret.room
           /\ m.id \in DOMAIN dbMessages
           /\ dbMessages[m.id].room = ret.room

\* The connections of a connection table.
TableConns(table) == {table[u] : u \in Users} \ {NoConn}

\* How often the i-th message the hub took is due on connection c when it
\* carries no room identifier.
GlobalDue(i, c) ==
    IF /\ hubLog[i].msg.type = MessageTypeTaskUpdate
       /\ c \in TableConns(hubLog[i].table)
    THEN 1 ELSE 0

\* C18: a message taken from Broadcast with an empty room identifier goes,
\* when its type is task_update, exactly once to every connection the table
\* holds at that moment and to no other, and with any other type to no
\* connection at all (never more than that while the hub is still sending,
\* exactly that once the hub is through with the message).
C18_GlobalFanOut ==
    \A i \in DOMAIN hubLog :
      hubLog[i].chan = "Broadcast" /\ hubLog[i].msg.room = NoRoom =>
        \A c \in ConnIds :
          /\ Occurrences(hubLog[i].targets, c) = GlobalDue(i, c)
          /\ Cardinality(Deliveries(c, i)) <= GlobalDue(i, c)
          /\ Processed(i) => Cardinality(Deliveries(c, i)) = GlobalDue(i, c)
          /\ \A d \in Deliveries(c, i) : received[c][d].msg = hubLog[i].msg

\* C18 witness: a task_update message without room was taken while the table
\* held two connections, and the hub is through with it.
C18_Witness ==
    \E i \in DOMAIN hubLog :
      /\ hubLog[i].chan = "Broadcast"
      /\ hubLog[i].msg.room = NoRoom
      /\ hubLog[i].msg.type = MessageTypeTaskUpdate
      /\ Cardinality(TableConns(hubLog[i].table)) = 2
      /\ Processed(i)
      /\ \A c \in TableConns(hubLog[i].table) :
           Cardinality(Deliveries(c, i)) = 1

\* The messages SendDirectMessage handed to the hub so far.
DirectSent ==
    {m \in DirectMessage : m.op = "SendDirectMessage"}
      \cup {hubLog[i].msg : i \in {j \in DOMAIN hubLog :
                                     hubLog[j].msg.op = "SendDirectMessage"}}

\* C19: generateDirectRoomID gives the same identifier for a pair in either
\* order and the same identifier whenever it is given the same two users:
\* for all users, and for the rooms SendDirectMessage computed (with sender
\* and receiver in the call's order) for the messages it handed over.
C19_DirectRoomIDSymmetric ==
    /\ \A a, b \in Users :
         generateDirectRoomID(a, b) = generateDirectRoomID(b, a)
    /\ \A m \in DirectSent :
         m.room = generateDirectRoomID(m.target, m.user)
    /\ \A m1, m2 \in DirectSent :
         {m1.user, m1.target} = {m2.user, m2.target} => m1.room = m2.room

\* C19 witness: two direct messages between two users, one in each
\* direction, were handed over with the same room identifier.
C19_Witness ==
    \E m1, m2 \in DirectSent :
      /\ m1.user # m1.target
      /\ m2.user = m1.target /\ m2.target = m1.user
      /\ m1.room = m2.room

\* The pairs (current, new) the status of a task may change along.
ValidTransitions ==
    {<<StatusPending, StatusInProgress>>, <<StatusPending, StatusCompleted>>,
     <<StatusInProgress, StatusCompleted>>}

\* A step changes the stored status of a task only along a valid pair.
StoredStatusStep ==
    \A id \in DOMAIN taskStore :
      taskStore'[id].status # taskStore[id].status =>
        <<taskStore[id].status, taskStore'[id].status>> \in ValidTransitions

\* The step that ends an UpdateTaskStatus call: with a pair (current, new)
\* outside the table it returns ErrInvalidStatusTransition (or refuses the
\* caller) and writes nothing, with a pair of the table and an authorized
\* caller the new status is stored.
StatusCallStep ==
    \A call \in taskCalls \ taskCalls' :
      LET current == taskStore[call.task].status IN
      IF <<current, call.new>> \in ValidTransitions
      THEN ret'.err = OK => taskStore'[call.task].status = call.new
      ELSE /\ ret'.err \in {ErrInvalidStatusTransition, ErrUnauthorized}
           /\ taskStore' = taskStore

\* C20: the status of a task changes only from pending to in_progress, from
\* pending to completed and from in_progress to completed; UpdateTaskStatus
\* with any other pair of current and new status returns
\* ErrInvalidStatusTransition and writes nothing, and a valid one stores the
\* new status.
C20_StatusTransitions == [][StoredStatusStep /\ StatusCallStep]_vars

\* C21: a connection that was registered last for its user and whose own
\* reader has not failed (so that no Unregister of its own was sent) is its
\* user's entry in the connection table, whatever Unregister of an older
\* connection of the user the hub has processed.
C21_SupersededUnregister ==
    \A c \in ConnIds :
      (reader[c] \in {"read", "send"} /\ LastRegistered(connUser[c]) = c)
        => Connections[connUser[c]] = c

\* C22: an inbound frame whose type is an envelope type is routed by its
\* addressing: with a room identifier it is fanned out to the room, without
\* one and with a target it goes through DirectMessage to the target's
\* connection, without one and with type task_update it is fanned out to
\* every connection.
C22_FrameRoutedByAddressing ==
    \A i \in DOMAIN hubLog :
      LET e == hubLog[i]
          m == e.msg IN
      (m.op = "frame" /\ m.type # RoomTypeDirect) =>
        /\ m.room # NoRoom =>
             /\ e.chan = "Broadcast"
             /\ e.cached => e.targets = RoomTargets(e.table, e.users)
        /\ (m.room = NoRoom /\ m.type = MessageTypeTaskUpdate) =>
             e.targets \in GlobalTargets(e.table)
        /\ (m.room = NoRoom /\ m.type # MessageTypeTaskUpdate
              /\ m.target # NoUser) =>
             /\ e.chan = "DirectMessage"
             /\ e.targets = DirectTargets(e.table, m)

\* C23: once the hub has processed the Unregister of a connection, the
\* connection's writePump eventually terminates.
C23_WriterTerminates ==
    \A c \in ConnIds : (reader[c] = "done") ~> (writer[c] = "done")

\* A step keeps what earlier calls stored in a room: an identifier stays
\* pinned unless the step is an UnpinMessage, the archive flag stays set
\* unless it is an UnarchiveRoom, the mute flag unless it is an UnmuteRoom.
StoredRoomKept ==
    \A r \in DOMAIN dbRooms :
      /\ ret'.op # "UnpinMessage" =>
           \A k \in DOMAIN dbRooms[r].pinned :
             AlreadyPinned(dbRooms'[r].pinned, dbRooms[r].pinned[k])
      /\ ret'.op # "UnarchiveRoom" =>
           (dbRooms[r].archived => dbRooms'[r].archived)
      /\ ret'.op # "UnmuteRoom" =>
           (dbRooms[r].muted => dbRooms'[r].muted)

\* C24: no update of a stored room is lost when calls that read, change and
\* write the room overlap: what one call stored is still there after the
\* other has written.
C24_NoLostUpdate == [][StoredRoomKept]_vars

\* C25: a message the hub fans out to a room or to every connection was
\* submitted by the user it names; for a room that user is on the room's
\* member list; and no frame of a client is fanned out to every connection.
C25_NoSpoofedFanOut ==
    \A i \in DOMAIN hubLog :
      LET e == hubLog[i]
          m == e.msg IN
      (e.chan = "Broadcast" /\ e.targets # << >>) =>
        /\ m.src # NoConn => m.user = connUser[m.src]
        /\ m.room # NoRoom => \E k \in DOMAIN e.users : e.users[k] = m.user
        /\ m.room = NoRoom => m.src = NoConn

\* A step of LeaveRoom, ArchiveRoom, UnarchiveRoom, MuteRoom, UnmuteRoom or
\* UpdateRoomInfo whose persistence call fails.
FailedCacheCall ==
    \E r \in RoomArgs :
      \/ \E u \in Users : LeaveRoom(r, u, "RemoveUserFromRoom")
      \/ ArchiveRoom(r, "UpdateRoom")
      \/ UnarchiveRoom(r, "UpdateRoom")
      \/ MuteRoom(r, "UpdateRoom")
      \/ UnmuteRoom(r, "UpdateRoom")
      \/ \E name \in NameArgs : UpdateRoomInfo(r, name, "UpdateRoom")

\* C26: when the persistence call of LeaveRoom, ArchiveRoom, UnarchiveRoom,
\* MuteRoom, UnmuteRoom or UpdateRoomInfo fails, the call returns the error
\* and the cached rooms are as they were before the call.
C26_CacheUnchangedOnFailure ==
    [][(FailedCacheCall /\ ret'.err = ErrDB) => Rooms' = Rooms]_vars

\* C27: a message SendGroupMessage handed over (the call succeeded, so the
\* room is in the store) is processed with the room in the hub's cache, and
\* once the hub is through with it every member of the cached list with a
\* connection in the table of that moment has received it.
C27_StoredRoomIsCached ==
    \A i \in DOMAIN hubLog :
      hubLog[i].msg.op = "SendGroupMessage" =>
        /\ hubLog[i].cached
        /\ Processed(i) =>
             \A k \in DOMAIN hubLog[i].users :
               LET c == hubLog[i].table[hubLog[i].users[k]] IN
               c # NoConn => Deliveries(c, i) # {}

\* C28: the last-message of a cached room, when set, identifies a message
\* stored for that room.
C28_LastMessageIsPersisted ==
    \A r \in DOMAIN Rooms :
      Rooms[r].last # NoLast =>
        /\ Rooms[r].last.id \in DOMAIN dbMessages
        /\ dbMessages[Rooms[r].last.id].room = r

\* HandleConnection returns (the pumps start) in the step in which the hub
\* puts the connection into the table.
RegisteredOnReturn ==
    \A c \in ConnIds :
      (reader[c] = "register" /\ reader'[c] # "register") =>
        Lookup(Connections', connUser[c]) = c

\* A connection leaves the table only when the hub processes an Unregister
\* or a Register for its user.
EntryStays ==
    \A c \in ConnIds :
      (Lookup(Connections, connUser[c]) = c
         /\ Lookup(Connections', connUser[c]) # c) =>
        \E d \in ConnIds :
          /\ connUser[d] = connUser[c]
          /\ HubRegister(d) \/ HubUnregister(d)

\* A message the hub takes is routed with the table of that moment: a direct
\* message to the entry of its target, a room message to the entries of the
\* cached members, a global one to every entry.
RoutedByTable ==
    Len(hubLog') > Len(hubLog) =>
      LET e == hubLog'[Len(hubLog')]
          m == e.msg IN
      /\ e.table = Connections
      /\ e.chan = "DirectMessage" =>
           e.targets = DirectTargets(Connections, m)
      /\ (e.chan = "Broadcast" /\ m.room # NoRoom /\ e.cached) =>
           e.targets = RoomTargets(Connections, Rooms[m.room].users)
      /\ (e.chan = "Broadcast" /\ m.room = NoRoom
            /\ m.type = MessageTypeTaskUpdate) =>
           e.targets \in GlobalTargets(Connections)

\* C29: when HandleConnection has returned the connection is in the table,
\* it stays there until the hub processes an Unregister or a newer Register
\* for its user, and every message the hub takes is routed with the table as
\* it is then: a message handed over after the return goes to that
\* connection unless such a step came in between.
C29_RegisteredBeforeRouting ==
    [][RegisteredOnReturn /\ EntryStays /\ RoutedByTable]_vars

\* C29 witness: a direct message was taken after its target's connection was
\* registered, was routed to that connection and delivered there, the
\* connection still being the user's entry.
C29_Witness ==
    \E i \in DOMAIN hubLog : \E c \in ConnIds :
      /\ hubLog[i].chan = "DirectMessage"
      /\ hubLog[i].targets = <<c>>
      /\ hubLog[i].msg.target = connUser[c]
      /\ hubLog[i].msg.src # c
      /\ Deliveries(c, i) # {}
      /\ Lookup(Connections, connUser[c]) = c

\* A step in which readPump meets a malformed frame puts nothing on a hub
\* channel and leaves the connection table and both pumps as they are.
MalformedDropped ==
    \A c \in ConnIds :
      malformed'[c] # malformed[c] =>
        /\ UNCHANGED <<Broadcast, DirectMessage, Connections, hubLog>>
        /\ reader'[c] = "read"
        /\ writer'[c] = writer[c]

\* A frame read after a malformed one is handed to the channel its type
\* names and routed by the hub like any other.
RoutedAfterMalformed ==
    /\ \A m \in Broadcast \cup DirectMessage :
         (m.op = "frame" /\ m.after > 0) =>
           (m \in DirectMessage <=> FrameChannel(m.type) = "DirectMessage")
    /\ \A i \in DOMAIN hubLog :
         (hubLog[i].msg.op = "frame" /\ hubLog[i].msg.after > 0) =>
           /\ hubLog[i].chan = FrameChannel(hubLog[i].msg.type)
           /\ hubLog[i].chan = "DirectMessage" =>
                hubLog[i].targets =
                  DirectTargets(hubLog[i].table, hubLog[i].msg)
           /\ Processed(i) =>
                \A k \in DOMAIN hubLog[i].targets :
                  Deliveries(hubLog[i].targets[k], i) # {}

\* C30: a malformed inbound frame is dropped: nothing goes to a hub channel,
\* the connection stays in the table with both pumps running, and frames
\* read from the connection afterwards are routed.
C30_MalformedFrameDropped ==
    [][MalformedDropped /\ RoutedAfterMalformed']_vars

\* C30 witness: a connection dropped a malformed frame, then read a direct
\* frame that the hub delivered to its target, and is still in the table.
C30_Witness ==
    \E i \in DOMAIN hubLog :
      LET m == hubLog[i].msg IN
      /\ m.op = "frame" /\ m.after > 0
      /\ hubLog[i].chan = "DirectMessage"
      /\ hubLog[i].targets # << >>
      /\ Processed(i)
      /\ Deliveries(hubLog[i].targets[1], i) # {}
      /\ Lookup(Connections, connUser[m.src]) = m.src
====
